---- MODULE Spec2Model ----
(***************************************************************************)
(* add-chirps.py: keepalive chirps for Bluetooth earbuds.                  *)
(*                                                                         *)
(* The model follows src/add-chirps.py: process() plans the output files   *)
(* and polls a pool of process_file() workers; each worker reads its       *)
(* window of samples, tracks running silence, replaces samples by chirps,  *)
(* and encodes them chunk by chunk.                                        *)
(*                                                                         *)
(* Python's float is IEEE-754 binary64.  The program accumulates seconds  *)
(* by repeated float addition and compares the sums with float settings,  *)
(* so the floats are modelled bit for bit: a float is a sign, an odd      *)
(* binary significand (a sequence of limbs, most significant first) and    *)
(* the exponent of its last bit; every operation computes the exact       *)
(* result and rounds it to nearest-even at Precision bits.                *)
(***************************************************************************)
EXTENDS Integers, Sequences, FiniteSets, TLC

----------------------------------------------------------------------------
(* Naturals of any size: sequences of limbs of LimbBits bits, the most     *)
(* significant limb first, without leading zero limbs.                     *)

Precision == 53

LimbBits == 15

Base == 2 ^ LimbBits

Zeros(n) == [i \in 1..n |-> 0]

Front(a) == SubSeq(a, 1, Len(a) - 1)

Last(a) == a[Len(a)]

RECURSIVE BStrip(_)
BStrip(a) == IF a # <<>> /\ a[1] = 0 THEN BStrip(Tail(a)) ELSE a

RECURSIVE NatToLimbs(_)
NatToLimbs(n) ==
    IF n = 0 THEN <<>> ELSE Append(NatToLimbs(n \div Base), n % Base)

RECURSIVE LimbsToNat(_)
LimbsToNat(a) == IF a = <<>> THEN 0 ELSE Base * LimbsToNat(Front(a)) + Last(a)

PadTo(a, n) == Zeros(n - Len(a)) \o a

\* a + b + c for a, b of equal length and a carry c
RECURSIVE BAddC(_, _, _)
BAddC(a, b, c) ==
    IF a = <<>> THEN <<c>>
    ELSE LET x == Last(a) + Last(b) + c
         IN  Append(BAddC(Front(a), Front(b), x \div Base), x % Base)

BAdd(a, b) ==
    LET n == IF Len(a) > Len(b) THEN Len(a) ELSE Len(b)
    IN  BStrip(BAddC(PadTo(a, n), PadTo(b, n), 0))

\* a - b - c for a, b of equal length, a >= b + c, and a borrow c
RECURSIVE BSubC(_, _, _)
BSubC(a, b, c) ==
    IF a = <<>> THEN <<>>
    ELSE LET x == Last(a) - Last(b) - c
         IN  Append(BSubC(Front(a), Front(b), IF x < 0 THEN 1 ELSE 0),
                    IF x < 0 THEN x + Base ELSE x)

BSub(a, b) ==
    LET n == IF Len(a) > Len(b) THEN Len(a) ELSE Len(b)
    IN  BStrip(BSubC(PadTo(a, n), PadTo(b, n), 0))

BLess(a, b) ==
    IF Len(a) # Len(b) THEN Len(a) < Len(b)
    ELSE \E i \in 1..Len(a) :
            /\ a[i] < b[i]
            /\ \A j \in 1..(i - 1) : a[j] = b[j]

\* a * d + c for a limb d and a carry c
RECURSIVE BMulC(_, _, _)
BMulC(a, d, c) ==
    IF a = <<>> THEN <<c>>
    ELSE LET x == Last(a) * d + c
         IN  Append(BMulC(Front(a), d, x \div Base), x % Base)

BMulSmall(a, d) == BStrip(BMulC(a, d, 0))

RECURSIVE BMul(_, _)
BMul(a, b) ==
    IF b = <<>> THEN <<>>
    ELSE BAdd(BStrip(Append(BMul(a, Front(b)), 0)), BMulSmall(a, Last(b)))

\* a divided by a limb d > 0, from the most significant limb down, r being
\* the remainder so far: the quotient (with leading zeros) and the remainder
RECURSIVE BDivC(_, _, _, _)
BDivC(a, d, r, q) ==
    IF a = <<>> THEN [q |-> q, r |-> r]
    ELSE BDivC(Tail(a), d, (r * Base + Head(a)) % d,
               Append(q, (r * Base + Head(a)) \div d))

BDivSmall(a, d) ==
    LET dm == BDivC(a, d, 0, <<>>)
    IN  [q |-> BStrip(dm.q), r |-> dm.r]

\* a * 2^k
BShl(a, k) ==
    IF a = <<>> THEN a
    ELSE BMulSmall(a, 2 ^ (k % LimbBits)) \o Zeros(k \div LimbBits)

\* a \div 2^k
BShr(a, k) ==
    IF k \div LimbBits >= Len(a) THEN <<>>
    ELSE BDivSmall(SubSeq(a, 1, Len(a) - k \div LimbBits),
                   2 ^ (k % LimbBits)).q

BOdd(a) == a # <<>> /\ Last(a) % 2 = 1

\* the number of bits of a
BBitLen(a) ==
    IF a = <<>> THEN 0
    ELSE LimbBits * (Len(a) - 1)
         + (CHOOSE n \in 1..LimbBits : 2 ^ (n - 1) <= a[1] /\ a[1] < 2 ^ n)

\* the number of zero bits a # 0 ends with
BTrailZeros(a) ==
    LET i == CHOOSE i \in 1..Len(a) :
                 a[i] # 0 /\ \A j \in (i + 1)..Len(a) : a[j] = 0
    IN  LimbBits * (Len(a) - i)
        + (CHOOSE t \in 0..(LimbBits - 1) :
               a[i] % (2 ^ t) = 0 /\ (a[i] \div (2 ^ t)) % 2 = 1)

\* bit i of a, bit 1 being the least significant
BBit(a, i) ==
    LET l == Len(a) - (i - 1) \div LimbBits
    IN  IF l < 1 THEN 0 ELSE (a[l] \div (2 ^ ((i - 1) % LimbBits))) % 2

\* long division of n by d: bits hi down to lo of n are brought down into the
\* remainder st.r one by one; the range is halved, the upper half first, so
\* that the recursion stays shallow
RECURSIVE BDivBits(_, _, _, _, _)
BDivBits(n, d, hi, lo, st) ==
    IF hi < lo THEN st
    ELSE IF hi = lo
    THEN LET r2 == BAdd(BMulSmall(st.r, 2), NatToLimbs(BBit(n, hi)))
             q2 == BMulSmall(st.q, 2)
         IN  IF BLess(r2, d) THEN [q |-> q2, r |-> r2]
             ELSE [q |-> BAdd(q2, <<1>>), r |-> BSub(r2, d)]
    ELSE LET mid   == (hi + lo) \div 2
             upper == BDivBits(n, d, hi, mid + 1, st)
         IN  IF upper.r = <<>> THEN BDivBits(n, d, mid, lo, upper)
             ELSE BDivBits(n, d, mid, lo, upper)

BDivMod(n, d) ==
    IF Len(d) = 1
    THEN LET dm == BDivSmall(n, d[1])
         IN  [q |-> dm.q, r |-> NatToLimbs(dm.r)]
    ELSE BDivBits(n, d, BBitLen(n), 1, [q |-> <<>>, r |-> <<>>])

----------------------------------------------------------------------------
(* Floats: value = (-1)^neg * m * 2^e with m odd, or m = <<>> for zero.    *)

FZero == [neg |-> FALSE, m |-> <<>>, e |-> 0]

FNorm(neg, m, e) ==
    IF m = <<>> THEN FZero
    ELSE LET t == BTrailZeros(m)
         IN  [neg |-> neg, m |-> BShr(m, t), e |-> e + t]

\* round to nearest, ties to even, at Precision bits
FRound(neg, m, e) ==
    LET k == BBitLen(m) - Precision
    IN  IF k <= 0 THEN FNorm(neg, m, e)
        ELSE LET q      == BShr(m, k - 1)
                 keep   == BShr(q, 1)
                 guard  == BOdd(q)
                 sticky == BShl(q, k - 1) # m
                 up     == guard /\ (sticky \/ BOdd(keep))
             IN  FNorm(neg, IF up THEN BAdd(keep, <<1>>) ELSE keep, e + k)

FromNat(n) == FNorm(FALSE, NatToLimbs(n), 0)

FromInt(i) == IF i < 0 THEN FNorm(TRUE, NatToLimbs(-i), 0) ELSE FromNat(i)

FAbs(x) == [x EXCEPT !.neg = FALSE]

FIsZero(x) == x.m = <<>>

\* x + y for operands of the same sign (the program adds only elapsed seconds)
FAdd(x, y) ==
    IF FIsZero(x) THEN y
    ELSE IF FIsZero(y) THEN x
    ELSE LET e0 == IF x.e < y.e THEN x.e ELSE y.e
         IN  FRound(x.neg, BAdd(BShl(x.m, x.e - e0), BShl(y.m, y.e - e0)), e0)

FMul(x, y) ==
    IF FIsZero(x) \/ FIsZero(y) THEN FZero
    ELSE FRound(x.neg # y.neg, BMul(x.m, y.m), x.e + y.e)

\* x / y for y # 0: the quotient is computed to at least Precision + 2 bits
\* and a sticky bit, then rounded
FDiv(x, y) ==
    IF FIsZero(x) THEN FZero
    ELSE LET k0 == Precision + 2 + BBitLen(y.m) - BBitLen(x.m)
             k  == IF k0 < 0 THEN 0 ELSE k0
             dm == BDivMod(BShl(x.m, k), y.m)
         IN  FRound(x.neg # y.neg,
                    BAdd(BShl(dm.q, 1), IF dm.r = <<>> THEN <<>> ELSE <<1>>),
                    x.e - y.e - k - 1)

\* magnitudes compared after aligning the exponents
FMagLess(x, y) ==
    IF FIsZero(y) THEN FALSE
    ELSE IF FIsZero(x) THEN TRUE
    ELSE LET e0 == IF x.e < y.e THEN x.e ELSE y.e
         IN  BLess(BShl(x.m, x.e - e0), BShl(y.m, y.e - e0))

FLess(x, y) ==
    IF x.neg /\ ~y.neg THEN TRUE
    ELSE IF ~x.neg /\ y.neg THEN FALSE
    ELSE IF x.neg THEN FMagLess(y, x)
    ELSE FMagLess(x, y)

FLeq(x, y) == ~FLess(y, x)

\* int(x): truncation toward zero
FTrunc(x) ==
    LET n == LimbsToNat(IF x.e >= 0 THEN BShl(x.m, x.e) ELSE BShr(x.m, -x.e))
    IN  IF x.neg THEN -n ELSE n

----------------------------------------------------------------------------
(* Bounds of the model.                                                    *)

\* frames of the input file in the runs of process()
MaxFrames == 4

\* output files of the runs with several files
MaxFiles == 2

\* readings of time.time() beyond the first
MaxClock == 1

\* seconds of input in the runs of a single worker over a silent file
MaxSilentSec == 5

----------------------------------------------------------------------------
VARIABLES
    argv,             \* the command line: each setting as typed, <<num, den>>
    args,             \* the argparse namespace: the settings as floats
    audio,            \* the input file, as audioread reports and decodes it
    bad_encoder,      \* the files whose lameenc encoder raises
    random_values,    \* the values (random.random() * 2.0) - 1 can take
    now,              \* time.time()
    opc,              \* where process() is
    plan,             \* file_sample_count, total_sample_count, file_count
    next_file,        \* file_idx of the dispatch loop
    result_list,      \* process(): the results not yet seen ready
    scan_idx,         \* position of "for result_obj in result_list"
    not_ready_list,   \* process(): the results found not ready in this scan
    error,            \* the exception process() raised, or "none"
    wk,               \* per file_idx: the process_file() task and its locals
    progress_queue,   \* manager.Queue()
    rendered,         \* the tuples handed to log_progress_update
    result            \* what command_line() and main() returned, -1 before

vars == <<argv, args, audio, bad_encoder, random_values, now, opc, plan,
          next_file, result_list, scan_idx, not_ready_list, error, wk,
          progress_queue, rendered, result>>

env_vars == <<argv, args, audio, bad_encoder, random_values>>

orch_vars == <<opc, plan, next_file, result_list, scan_idx, not_ready_list,
               error, rendered,
              result>>

----------------------------------------------------------------------------
(* Settings and input.                                                     *)

\* an optional setting is the empty set (Python's None) or a set of one value
None == {}

Some(x) == {x}

TheOne(o) == CHOOSE x \in o : TRUE

\* type=float of argparse: the decimal num/den, correctly rounded
ParseFloat(q) == FDiv(FromInt(q[1]), FromNat(q[2]))

ParseArgs(v) ==
    [file_duration_sec        |-> ParseFloat(v.file_duration_sec),
     silence_threshold_volume |-> ParseFloat(v.silence_threshold_volume),
     silence_duration_sec     |-> ParseFloat(v.silence_duration_sec),
     chirp_volume             |-> ParseFloat(v.chirp_volume),
     chirp_duration_sec       |-> ParseFloat(v.chirp_duration_sec),
     update_frequency_sec     |-> v.update_frequency_sec,
     chunk_duration_sec       |-> ParseFloat(v.chunk_duration_sec),
     worker_count             |-> v.worker_count,
     max_encode_duration_sec  |->
        IF v.max_encode_duration_sec = None THEN None
        ELSE Some(ParseFloat(TheOne(v.max_encode_duration_sec)))]

\* audioread.audio_open(path): channels, samplerate, duration and the frames
\* that read_blocks() decodes
\* f.read_blocks(): the frames of the file in blocks of block_frames frames,
\* the last block holding the rest
Blocks(frames, block_frames) ==
    [b \in 1..((Len(frames) + block_frames - 1) \div block_frames) |->
        SubSeq(frames, (b - 1) * block_frames + 1,
               IF b * block_frames < Len(frames) THEN b * block_frames
               ELSE Len(frames))]

AudioFile(channels, rate, frames, block_frames) ==
    [channel_count  |-> channels,
     sample_rate_hz |-> rate,
     duration_sec   |-> FDiv(FromNat(Len(frames)), FromNat(rate)),
     frames         |-> frames,
     blocks         |-> Blocks(frames, block_frames)]

F32767 == FromNat(32767)

----------------------------------------------------------------------------
(* process(): the plan.                                                    *)

GetFileSampleCount ==
    IF ~FIsZero(args.file_duration_sec)
    THEN FTrunc(FMul(args.file_duration_sec, FromNat(audio.sample_rate_hz)))
    ELSE FTrunc(FMul(audio.duration_sec, FromNat(audio.sample_rate_hz)))

TotalSampleCount ==
    FTrunc(FMul(audio.duration_sec, FromNat(audio.sample_rate_hz)))

\* Python's divmod(a, b), b # 0: the quotient is floored and the remainder
\* has the sign of b
PyDivMod(a, b) ==
    LET qa == (IF a < 0 THEN -a ELSE a) \div (IF b < 0 THEN -b ELSE b)
        ra == (IF a < 0 THEN -a ELSE a) % (IF b < 0 THEN -b ELSE b)
        q  == IF (a < 0) = (b < 0) THEN qa
              ELSE IF ra = 0 THEN -qa ELSE -qa - 1
    IN  <<q, a - q * b>>

FileCount(total_sample_count, file_sample_count) ==
    LET dm == PyDivMod(total_sample_count, file_sample_count)
    IN  IF dm[2] # 0 THEN dm[1] + 1 ELSE dm[1]

NoPlan == [file_sample_count |-> 0, total_sample_count |-> 0, file_count |-> 0]

Files == 0..(plan.file_count - 1)

----------------------------------------------------------------------------
(* process_file(): the locals of one task.                                 *)

NewTask ==
    [pc                |-> "unsubmitted",
     file              |-> "absent",
     single_sample_sec |-> FZero,
     silence_sec       |-> FZero,
     completed_sec     |-> FZero,
     last_update_ts    |-> 0,
     chunk_sec         |-> FZero,
     sample_list       |-> <<>>,
     blk               |-> 1,
     pos               |-> 1,
     sample_idx        |-> 0,
     read              |-> <<>>,
     n                 |-> 0,
     out               |-> <<>>,
     chirped           |-> FALSE,
     silences          |-> <<>>,
     chirps            |-> {},
     onsets            |-> <<>>,
     encoded           |-> <<>>,
     flushed           |-> FALSE,
     err               |-> "none"]

RECURSIVE SumSeq(_)
SumSeq(q) == IF q = <<>> THEN 0 ELSE Head(q) + SumSeq(Tail(q))

RECURSIVE Concat(_)
Concat(qq) == IF qq = <<>> THEN <<>> ELSE Head(qq) \o Concat(Tail(qq))

\* read_samples: mono_sample = sum(sample_list) / len(sample_list)
MonoSample(frame) == FDiv(FromInt(SumSeq(frame)), FromNat(Len(frame)))

\* read_samples, line 375: the generator moves on to the next frame of the
\* block
NextSample(t) == [t EXCEPT !.pos = @ + 1, !.sample_idx = @ + 1]

\* sample_idx counted anew in every block
NextBlockRestart(t) == [t EXCEPT !.blk = @ + 1, !.pos = 1, !.sample_idx = 0]

\* read_samples, lines 368 and 372: the block is exhausted, or "break" left
\* the loop over its frames; sample_idx is kept
NextBlock(t) == [t EXCEPT !.blk = @ + 1, !.pos = 1]

\* read_samples, lines 368-374: the generator of task t runs to its next
\* "yield" (stop is FALSE, t is suspended at the frame it yields) or to its
\* end (stop is TRUE)
RECURSIVE ReadNext(_, _)
ReadNext(file_idx, t) ==
    LET offset_sample_count == file_idx * plan.file_sample_count
    IN  IF t.blk > Len(audio.blocks)
        THEN [stop |-> TRUE, t |-> t]
        ELSE IF t.pos > Len(audio.blocks[t.blk])
        THEN ReadNext(file_idx, NextBlock(t))
        ELSE IF t.sample_idx >= offset_sample_count
        THEN IF t.sample_idx >= offset_sample_count + plan.file_sample_count
             THEN ReadNext(file_idx, NextBlock(t))
             ELSE [stop |-> FALSE, t |-> t]
        ELSE ReadNext(file_idx, NextSample(t))

\* the place in the file, counted in frames from 0, of the frame at which
\* the generator of task t stands
FramePlace(t) ==
    SumSeq([b \in 1..(t.blk - 1) |-> Len(audio.blocks[b])]) + t.pos - 1

SampleFloat(sample_word) == FDiv(sample_word, F32767)

\* the silence test made on the newest sample of the output
HeardOutput(f, sample_float) ==
    IF wk[f].out = <<>> THEN sample_float
    ELSE FDiv(FromInt(wk[f].out[Len(wk[f].out)]), FromNat(32767))

\* line 287: the sample the silence test looks at is the input sample
HeardSample(f, sample_float) == sample_float

\* the running silence advanced by two sample periods
SilenceUpdateTwice(silence_sec, sample_float, single_sample_sec) ==
    IF FLess(FAbs(sample_float), args.silence_threshold_volume)
    THEN FAdd(FAdd(silence_sec, single_sample_sec), single_sample_sec)
    ELSE FZero

\* the running silence assigned instead of accumulated
SilenceUpdateAssign(silence_sec, sample_float, single_sample_sec) ==
    IF FLess(FAbs(sample_float), args.silence_threshold_volume)
    THEN single_sample_sec
    ELSE FZero

SilenceUpdate(silence_sec, sample_float, single_sample_sec) ==
    IF FLess(FAbs(sample_float), args.silence_threshold_volume)
    THEN FAdd(silence_sec, single_sample_sec)
    ELSE FZero

\* the running silence never re-armed
RearmNever(silence_sec) == silence_sec

Rearm(silence_sec) ==
    IF FLess(FAdd(args.silence_duration_sec, args.chirp_duration_sec),
             silence_sec)
    THEN FZero ELSE silence_sec

\* a chirp as soon as the running silence reaches silence_duration_sec
IsChirpAtOrAbove(silence_sec) == FLeq(args.silence_duration_sec, silence_sec)

IsChirp(silence_sec) == FLess(args.silence_duration_sec, silence_sec)

\* sample_float = (random.random() * 2.0) - 1; sample_float *= chirp_volume
ChirpSample(u) == FMul(u, args.chirp_volume)

SampleWord(sample_float) == FTrunc(FMul(sample_float, F32767))

ChunkFull(chunk_sec) == FLess(args.chunk_duration_sec, chunk_sec)

\* struct.pack_into("h" * n): every word must be a signed 16-bit integer
PackOk(sample_list) ==
    \A i \in 1..Len(sample_list) :
        sample_list[i] >= -32768 /\ sample_list[i] <= 32767

\* encode_and_write_mp3_chunk: "ok", or the exception it raises
EncodeResult(file_idx, sample_list) ==
    IF ~PackOk(sample_list) THEN "struct.error"
    ELSE IF file_idx \in bad_encoder THEN "EncodingFailure"
    ELSE "ok"

\* the buffer kept after a chunk is encoded
ClearedNot(sample_list) == sample_list

\* sample_list.clear()
Cleared(sample_list) == <<>>

\* queue_progress_update: the tuple put on the queue
ProgressTup(file_idx, completed_sec) ==
    [file_idx           |-> file_idx,
     completed_fraction |-> FDiv(completed_sec, args.file_duration_sec),
     completed_sec      |-> completed_sec]

\* a last-in first-out queue
QueuePutFront(queue, tup) == <<tup>> \o queue

\* progress_queue.put(tup)
QueuePut(queue, tup) == Append(queue, tup)

\* queue_progress_update raises when it divides by file_duration_sec = 0
UpdateRaises == FIsZero(args.file_duration_sec)

\* time.time() > last_update_ts + args.update_frequency_sec
UpdateDue(ts, last_update_ts) == ts > last_update_ts + args.update_frequency_sec

\* what time.time() can return: the clock does not run backwards
ClockReadings == {ts \in {now, now + 1} : ts <= 1 + MaxClock}

\* an exception leaves the "with" block, which closes the file, and ends the
\* task
Failed(t, err) == [t EXCEPT !.pc = "failed", !.file = "closed", !.err = err]

Running == {f \in Files : wk[f].pc \in {"decoding", "final_update", "closing"}}

\* result_obj.ready() false for a task that raised
ReadyWhenDone(f) == wk[f].pc = "done"

\* result_obj.ready(): the task has returned or raised
Ready(f) == wk[f].pc \in {"done", "failed"}

\* result_obj.get() swallowing the exception of a failed task
GetSwallows(f) == FALSE

\* result_obj.get() re-raises the exception of a failed task
GetRaises(f) == wk[f].pc = "failed"

----------------------------------------------------------------------------
(* Actions of process().                                                   *)

\* lines 187-199: audio params, sample counts, number of files
Plan ==
    /\ opc = "start"
    /\ LET fsc   == GetFileSampleCount
           total == TotalSampleCount
       IN  IF fsc = 0
           THEN /\ opc' = "raised"
                /\ error' = "ZeroDivisionError"
                /\ UNCHANGED <<plan, wk>>
           ELSE LET fc == FileCount(total, fsc)
                IN  /\ plan' = [file_sample_count  |-> fsc,
                                total_sample_count |-> total,
                                file_count         |-> fc]
                    /\ wk' = [f \in 0..(fc - 1) |-> NewTask]
                    /\ opc' = IF fc > 0 THEN "dispatch" ELSE "scan"
                    /\ error' = error
    /\ UNCHANGED <<env_vars, result, now, next_file, result_list, scan_idx,
                   not_ready_list, progress_queue, rendered>>

\* lines 207-212: one pool.apply_async
Dispatch ==
    /\ opc = "dispatch"
    /\ wk' = [wk EXCEPT ![next_file].pc = "queued"]
    /\ result_list' = Append(result_list, next_file)
    /\ next_file' = next_file + 1
    /\ opc' = IF next_file + 1 < plan.file_count THEN "dispatch" ELSE "scan"
    /\ UNCHANGED <<env_vars, result, now, plan, scan_idx, not_ready_list, error,
                   progress_queue, rendered>>

\* lines 217-222: one result_obj of the scan
Scan ==
    /\ opc = "scan"
    /\ scan_idx <= Len(result_list)
    /\ LET f == result_list[scan_idx]
       IN  IF Ready(f)
           THEN IF GetRaises(f)
                THEN /\ opc' = "raised"
                     /\ error' = wk[f].err
                     /\ UNCHANGED <<scan_idx, not_ready_list>>
                ELSE /\ scan_idx' = scan_idx + 1
                     /\ UNCHANGED <<opc, error, not_ready_list>>
           ELSE /\ scan_idx' = scan_idx + 1
                /\ not_ready_list' = Append(not_ready_list, f)
                /\ UNCHANGED <<opc, error>>
    /\ UNCHANGED <<env_vars, result, now, plan, next_file, result_list, wk,
                   progress_queue, rendered>>

\* lines 224-225: nothing is outstanding, process() returns
PollBreak ==
    /\ opc = "scan"
    /\ scan_idx > Len(result_list)
    /\ not_ready_list = <<>>
    /\ opc' = "returned"
    /\ UNCHANGED <<env_vars, result, now, plan, next_file, result_list, scan_idx,
                   not_ready_list, error, wk, progress_queue, rendered>>

\* lines 227-248: next iteration, after at most one progress tuple is taken
PollProgress ==
    /\ opc = "scan"
    /\ scan_idx > Len(result_list)
    /\ not_ready_list # <<>>
    /\ result_list' = not_ready_list
    /\ not_ready_list' = <<>>
    /\ scan_idx' = 1
    /\ IF progress_queue # <<>>
       THEN /\ rendered' = Append(rendered, Head(progress_queue))
            /\ progress_queue' = Tail(progress_queue)
       ELSE UNCHANGED <<rendered, progress_queue>>
    /\ UNCHANGED <<env_vars, result, now, opc, plan, next_file, error, wk>>

\* lines 177-183: command_line() returns 1 when process() raised, 0 otherwise
CommandLineResult == IF opc = "raised" THEN 1 ELSE 0

\* lines 59-66: main() discards what command_line() returned; it returns 1
\* when command_line() raised, which it does not, and 0 otherwise
MainResult(command_line_raised) == IF command_line_raised THEN 1 ELSE 0

\* lines 177-183: process() has ended and command_line() returns
CommandLineReturn ==
    /\ opc \in {"returned", "raised"}
    /\ result.command_line = -1
    /\ result' = [result EXCEPT !.command_line = CommandLineResult]
    /\ UNCHANGED <<env_vars, now, opc, plan, next_file, result_list, scan_idx,
                   not_ready_list, error, wk, progress_queue, rendered>>

\* lines 59-66: command_line() has returned and main() returns
MainReturn ==
    /\ result.command_line # -1
    /\ result.main = -1
    /\ result' = [result EXCEPT !.main = MainResult(FALSE)]
    /\ UNCHANGED <<env_vars, now, opc, plan, next_file, result_list, scan_idx,
                   not_ready_list, error, wk, progress_queue, rendered>>

----------------------------------------------------------------------------
(* Actions of the pool and of process_file().                              *)

\* a free pool process takes the oldest queued task; lines 259-273: the
\* encoder is created, the locals are set and the output file is opened "wb"
StartTask(f) ==
    /\ wk[f].pc = "queued"
    /\ Cardinality(Running) < args.worker_count
    /\ \A g \in Files : wk[g].pc = "queued" => f <= g
    /\ wk' = [wk EXCEPT ![f] =
                [@ EXCEPT !.pc = "decoding",
                          !.file = "open",
                          !.single_sample_sec =
                              FDiv(FromNat(1), FromNat(audio.sample_rate_hz))]]
    /\ UNCHANGED <<env_vars, now, orch_vars, progress_queue>>

\* lines 274-305: one iteration of the loop over read_samples, beginning with
\* the generator's channel check when it is first resumed
ProcessSample(f) ==
    /\ wk[f].pc = "decoding"
    /\ LET t == wk[f]
           g == ReadNext(f, t)
       IN  IF audio.channel_count \notin {1, 2}
           THEN /\ wk' = [wk EXCEPT ![f] = Failed(t, "WakeupChirpsError")]
                /\ UNCHANGED <<progress_queue, now>>
           ELSE
           /\ ~g.stop
           /\ \E ts \in ClockReadings :
              LET sample_float  == SampleFloat(MonoSample(
                                       audio.blocks[g.t.blk][g.t.pos]))
                  completed_sec == FAdd(t.completed_sec, t.single_sample_sec)
                  chunk_sec     == FAdd(t.chunk_sec, t.single_sample_sec)
                  due           == UpdateDue(ts, t.last_update_ts)
                  silence_sec   == Rearm(SilenceUpdate(t.silence_sec,
                                             HeardSample(f, sample_float),
                                             t.single_sample_sec))
                  chirp         == IsChirp(silence_sec)
                  t1 == [NextSample(g.t) EXCEPT
                                  !.read = Append(@, FramePlace(g.t)),
                                  !.n = t.n + 1,
                                  !.completed_sec = completed_sec,
                                  !.chunk_sec = chunk_sec,
                                  !.last_update_ts = IF due THEN ts ELSE @]
              IN  /\ now' = ts
                  /\ IF due /\ UpdateRaises
                     THEN /\ wk' = [wk EXCEPT ![f] =
                                      Failed(t1, "ZeroDivisionError")]
                          /\ UNCHANGED progress_queue
                     ELSE
                     /\ progress_queue' =
                           IF due THEN QueuePut(progress_queue,
                                                ProgressTup(f, completed_sec))
                           ELSE progress_queue
                     /\ \E u \in IF chirp THEN random_values ELSE {FZero} :
                           LET out_float   == IF chirp THEN ChirpSample(u)
                                              ELSE sample_float
                               sample_word == SampleWord(out_float)
                               sample_list == Append(t.sample_list, sample_word)
                               full        == ChunkFull(chunk_sec)
                               res         == IF full
                                              THEN EncodeResult(f, sample_list)
                                              ELSE "ok"
                               t2 == [t1 EXCEPT
                                        !.silence_sec = silence_sec,
                                        !.chirped = chirp,
                                        !.silences = Append(@, silence_sec),
                                        !.chirps = IF chirp THEN @ \cup {t.n}
                                                   ELSE @,
                                        !.onsets = IF chirp /\ ~t.chirped
                                                   THEN Append(@, t.n) ELSE @,
                                        !.out = Append(@, sample_word),
                                        !.sample_list =
                                            IF full /\ res = "ok"
                                            THEN Cleared(sample_list)
                                            ELSE sample_list,
                                        !.chunk_sec = IF full /\ res = "ok"
                                                      THEN FZero ELSE @,
                                        !.encoded = IF full /\ res = "ok"
                                                    THEN Append(@, sample_list)
                                                    ELSE @]
                           IN  wk' = [wk EXCEPT ![f] =
                                        IF res = "ok" THEN t2
                                        ELSE Failed(t2, res)]
    /\ UNCHANGED <<env_vars, orch_vars>>

\* lines 307-310: read_samples is exhausted; the remaining samples are
\* encoded, the encoder is flushed and its bytes are written
Flush(f) ==
    /\ wk[f].pc = "decoding"
    /\ audio.channel_count \in {1, 2}
    /\ ReadNext(f, wk[f]).stop
    /\ LET t   == wk[f]
           res == EncodeResult(f, t.sample_list)
       IN  wk' = [wk EXCEPT ![f] =
                    IF res = "ok"
                    THEN [t EXCEPT !.pc = "final_update",
                                   !.encoded = Append(@, t.sample_list),
                                   !.flushed = TRUE]
                    ELSE Failed(t, res)]
    /\ UNCHANGED <<env_vars, now, orch_vars, progress_queue>>

\* lines 312-315: the final progress update, inside the "with" block
FinalUpdate(f) ==
    /\ wk[f].pc = "final_update"
    /\ IF UpdateRaises
       THEN /\ wk' = [wk EXCEPT ![f] = Failed(wk[f], "ZeroDivisionError")]
            /\ UNCHANGED progress_queue
       ELSE /\ wk' = [wk EXCEPT ![f].pc = "closing"]
            /\ progress_queue' =
                  QueuePut(progress_queue,
                           ProgressTup(f, wk[f].completed_sec))
    /\ UNCHANGED <<env_vars, now, orch_vars>>

\* the "with" block is left: the file is closed and the task's result is set
CloseFile(f) ==
    /\ wk[f].pc = "closing"
    /\ wk' = [wk EXCEPT ![f].pc = "done", ![f].file = "closed"]
    /\ UNCHANGED <<env_vars, now, orch_vars, progress_queue>>

----------------------------------------------------------------------------
(* Initial states: the command lines and input files of the runs.          *)

Argv(fd, sd, cd, uf, ch, wc, ml) ==
    [file_duration_sec        |-> fd,
     silence_threshold_volume |-> <<3, 10>>,
     silence_duration_sec     |-> sd,
     chirp_volume             |-> <<1, 100>>,
     chirp_duration_sec       |-> cd,
     update_frequency_sec     |-> uf,
     chunk_duration_sec       |-> ch,
     worker_count             |-> wc,
     max_encode_duration_sec  |-> ml]

Quiet == 0

Loud == 16384

\* the least and the greatest value of (random.random() * 2.0) - 1
MinRandom == FromInt(-1)

MaxRandom ==
    FNorm(FALSE, BSub(BShl(<<1>>, Precision - 1), <<1>>), 1 - Precision)

\* frames in a block of f.read_blocks(), unless a run says otherwise
BlockFrames == 2

Run(channels, rate, frames, v, bad, rnd) ==
    [channels |-> channels, rate |-> rate, frames |-> frames, argv |-> v,
     bad |-> bad, rnd |-> rnd, block_frames |-> BlockFrames]

Silence(n) == [i \in 1..n |-> <<Quiet>>]

MonoPatterns(n) ==
    { Silence(n),
      [i \in 1..n |-> <<Loud>>],
      [i \in 1..n |-> IF i % 2 = 1 THEN <<Loud>> ELSE <<Quiet>>],
      [i \in 1..n |-> IF i = 1 THEN <<-32768>> ELSE <<Quiet>>] }

\* one output file, every chunk length
OneFileRuns ==
    { Run(1, 2, fr, Argv(<<MaxFrames, 1>>, <<1, 2>>, <<1, 2>>, 0, ch, 1, None),
          {}, {MinRandom, MaxRandom}) :
        fr \in UNION {MonoPatterns(n) : n \in 0..MaxFrames},
        ch \in {<<1, 2>>, <<1, 1>>} }

\* files of one frame each, with and without a failing encoder; and a last
\* file shorter than the others, with --max-length
ManyFileRuns ==
    { Run(1, 2, Silence(MaxFiles), Argv(<<1, 2>>, <<1, 2>>, <<1, 2>>, 0,
                                        <<10, 1>>, wc, None),
          bad, {MinRandom}) :
        wc \in {1, 2}, bad \in {{}, {0}, {1}} }
    \cup
    { Run(1, 2, Silence(3), Argv(<<1, 1>>, <<1, 2>>, <<1, 2>>, 0, <<10, 1>>,
                                 2, Some(<<1, 1>>)),
          {}, {MinRandom}) }

\* --file-duration 0: a single output file
SingleFileRuns ==
    { Run(1, 2, Silence(n), Argv(<<0, 1>>, <<1, 2>>, <<1, 2>>, uf, <<10, 1>>,
                                 2, None),
          {}, {MinRandom}) : n \in 0..2, uf \in {0, MaxClock + 1} }

\* stereo input, and an input with three channels
ChannelRuns ==
    { Run(2, 2, fr, Argv(<<2, 1>>, <<1, 2>>, <<1, 2>>, 0, <<10, 1>>, 1, None),
          {}, {MaxRandom}) :
        fr \in { <<<<-3, 0>>, <<1, 0>>, <<32767, 32767>>>>,
                 <<<<Quiet, Quiet>>, <<Quiet, Quiet>>, <<Loud, Loud>>>> } }
    \cup
    { Run(3, 2, [i \in 1..n |-> <<Quiet, Quiet, Quiet>>],
          Argv(<<1, 1>>, <<1, 2>>, <<1, 2>>, 0, <<10, 1>>, 2, None),
          {}, {MinRandom}) : n \in {2, 3} }

\* a sample rate and durations that are not binary fractions
DecimalRuns ==
    { Run(1, 10, Silence(n), Argv(<<3, 10>>, <<1, 10>>, <<1, 10>>, 0,
                                  <<2, 10>>, 1, None),
          {}, {MinRandom}) : n \in {2, 3} }

\* file durations below one sample period
OddDurationRuns ==
    { Run(1, rate, Silence(n), Argv(fd, <<1, 2>>, <<1, 2>>, 0, <<10, 1>>, 2,
                                    None),
          {}, {MinRandom}) :
        rate \in {2, 5}, n \in {1, 2}, fd \in {<<1, 10>>, <<1, 100>>} }

Runs == OneFileRuns \cup ManyFileRuns \cup SingleFileRuns \cup ChannelRuns
        \cup DecimalRuns \cup OddDurationRuns

InitRun(r, clock) ==
    /\ argv = r.argv
    /\ args = ParseArgs(r.argv)
    /\ audio = AudioFile(r.channels, r.rate, r.frames, r.block_frames)
    /\ bad_encoder = r.bad
    /\ random_values = r.rnd
    /\ now = clock

InitWith(runs) ==
    /\ \E r \in runs : InitRun(r, 1)
    /\ opc = "start"
    /\ plan = NoPlan
    /\ next_file = 0
    /\ result_list = <<>>
    /\ scan_idx = 1
    /\ not_ready_list = <<>>
    /\ error = "none"
    /\ wk = <<>>
    /\ progress_queue = <<>>
    /\ rendered = <<>>
    /\ result = [command_line |-> -1, main |-> -1]

Init == InitWith(Runs)

Next ==
    \/ Plan
    \/ Dispatch
    \/ Scan
    \/ PollBreak
    \/ PollProgress
    \/ CommandLineReturn
    \/ MainReturn
    \/ \E f \in Files : StartTask(f)
    \/ \E f \in Files : ProcessSample(f)
    \/ \E f \in Files : Flush(f)
    \/ \E f \in Files : FinalUpdate(f)
    \/ \E f \in Files : CloseFile(f)

Spec == Init /\ [][Next]_vars

----------------------------------------------------------------------------
(* The process_file() tasks alone: one task over a silent file, or the     *)
(* tasks of a file read in blocks; they have been planned, dispatched and  *)
(* started, and the clock stands still.                                    *)

SilentRuns ==
    { Run(1, rate, Silence(MaxSilentSec * rate),
          Argv(<<MaxSilentSec, 1>>, sd, cd, 0, <<1, 1>>, 1, None), {}, rnd) :
        rate \in {5, 10},
        sd \in {<<2, 10>>, <<3, 10>>, <<6, 10>>, <<1, 1>>},
        cd \in {<<0, 1>>, <<5, 100>>, <<1, 10>>, <<2, 10>>, <<4, 10>>},
        rnd \in {{MinRandom}, {MaxRandom}} }

\* files of two frames and a last one of one frame, read in blocks of every
\* length; the frames differ and none is silent
BlockRuns ==
    { [Run(1, 2, [i \in 1..5 |-> <<Loud + i>>],
           Argv(<<1, 1>>, <<1, 2>>, <<1, 2>>, 0, <<10, 1>>, 3, None),
           {}, {MinRandom}) EXCEPT !.block_frames = b] : b \in 1..5 }

InitTasks(runs) ==
    /\ \E r \in runs :
          /\ (r.argv.silence_duration_sec[1] * r.rate)
                 % r.argv.silence_duration_sec[2] = 0
          /\ InitRun(r, 1 + MaxClock)
    /\ opc = "scan"
    /\ plan = [file_sample_count  |-> GetFileSampleCount,
               total_sample_count |-> TotalSampleCount,
               file_count         |-> FileCount(TotalSampleCount,
                                                GetFileSampleCount)]
    /\ next_file = plan.file_count
    /\ result_list = [i \in 1..plan.file_count |-> i - 1]
    /\ scan_idx = 1
    /\ not_ready_list = <<>>
    /\ error = "none"
    /\ wk = [f \in Files |->
               [NewTask EXCEPT
                  !.pc = "decoding",
                  !.file = "open",
                  !.single_sample_sec =
                      FDiv(FromNat(1), FromNat(audio.sample_rate_hz))]]
    /\ progress_queue = <<>>
    /\ rendered = <<>>
    /\ result = [command_line |-> -1, main |-> -1]

InitTask == InitTasks(SilentRuns \cup BlockRuns)

NextTask ==
    \/ \E f \in Files : ProcessSample(f)
    \/ \E f \in Files : Flush(f)
    \/ \E f \in Files : FinalUpdate(f)
    \/ \E f \in Files : CloseFile(f)

SpecTask == InitTask /\ [][NextTask]_vars

----------------------------------------------------------------------------
(* Properties of the planning step and of a run as a whole.                *)

Min(a, b) == IF a < b THEN a ELSE b

\* the window of file i, cut off at total_sample_count
SegStart(i) == i * plan.file_sample_count

SegEnd(i) ==
    Min(SegStart(i) + plan.file_sample_count, plan.total_sample_count)

\* n = ceil(a / b), b # 0
IsCeil(n, a, b) ==
    IF b > 0 THEN (n - 1) * b < a /\ a <= n * b
    ELSE (n - 1) * b > a /\ a >= n * b

\* C1: for a non-empty input, once process() is past its planning step it
\* holds a plan of ceil(total_sample_count / file_sample_count) files whose
\* windows are non-empty, ascending and contiguous (only the last may be
\* shorter) and whose sample counts sum to total_sample_count.
C1_PlanTiles ==
    (opc # "start" /\ audio.frames # <<>>) =>
        /\ plan # NoPlan
        /\ IsCeil(plan.file_count, plan.total_sample_count,
                  plan.file_sample_count)
        /\ \A i \in Files :
              /\ SegStart(i) < SegEnd(i)
              /\ i + 1 \in Files =>
                    /\ SegEnd(i) = SegStart(i + 1)
                    /\ SegEnd(i) - SegStart(i) = plan.file_sample_count
        /\ SumSeq([i \in 1..plan.file_count |->
                      SegEnd(i - 1) - SegStart(i - 1)])
              = plan.total_sample_count

\* C2: with --file-duration 0 and a non-empty input, one file covering the
\* whole input is planned, its task never fails, the run does not raise,
\* and when process() returns the task is done and has encoded every sample
\* of the input.
C2_SingleFile ==
    (argv.file_duration_sec[1] = 0 /\ audio.frames # <<>>) =>
        /\ opc # "start" =>
              /\ plan.file_count = 1
              /\ plan.file_sample_count = Len(audio.frames)
        /\ \A f \in DOMAIN wk : wk[f].pc # "failed"
        /\ opc # "raised"
        /\ opc = "returned" =>
              /\ wk[0].pc = "done"
              /\ Len(Concat(wk[0].encoded)) = Len(audio.frames)

\* C3: with a channel count other than 1 or 2 no task is ever submitted to
\* the pool and no output file is ever created or opened.
C3_AbortBeforeDispatch ==
    audio.channel_count \notin {1, 2} =>
        /\ result_list = <<>>
        /\ \A f \in DOMAIN wk :
              wk[f].pc = "unsubmitted" /\ wk[f].file = "absent"

\* the tasks that have left the "with" block normally
Done == {f \in DOMAIN wk : wk[f].pc = "done"}

\* C6: when a task is done, the buffers given to the encoder, concatenated
\* in call order, are exactly the transformed samples in input order, one
\* word for each sample read.
C6_EncodedOnce ==
    \A f \in Done :
        /\ Concat(wk[f].encoded) = wk[f].out
        /\ Len(Concat(wk[f].encoded)) = wk[f].n

\* C6 witness: a task is done after several encode calls, with a chirp among
\* its samples
C6_Witness ==
    \E f \in Done :
        /\ Len(wk[f].encoded) >= 3
        /\ wk[f].n >= 3
        /\ wk[f].onsets # <<>>

\* C7: process() returns only when every planned file's task is done; and
\* when it raises after planning, the error is that of a failed task.
C7_NoPartialSuccess ==
    /\ opc = "returned" =>
          \A f \in Files : wk[f].pc = "done"
    /\ (opc = "raised" /\ plan # NoPlan) =>
          \E f \in Files : wk[f].pc = "failed" /\ error = wk[f].err

\* C7 witness: process() has raised the error of a failed task although
\* another task is done
C7_Witness ==
    /\ opc = "raised"
    /\ \E f \in Files : wk[f].pc = "failed" /\ error = wk[f].err
    /\ Done # {}

\* every tuple put on the progress queue so far, in the order of the puts
Events == rendered \o progress_queue

\* C8: queue_progress_update never raises, and every tuple put on the queue
\* carries completed_sec / file_duration_sec, a value from 0 to 1.
C8_FractionRange ==
    /\ \A f \in DOMAIN wk : wk[f].err # "ZeroDivisionError"
    /\ \A i \in 1..Len(Events) :
          /\ Events[i].completed_fraction =
                FDiv(Events[i].completed_sec, args.file_duration_sec)
          /\ FLeq(FZero, Events[i].completed_fraction)
          /\ FLeq(Events[i].completed_fraction, FromNat(1))

\* C9: of two tuples of the same file, the one put later does not carry the
\* lower completed_fraction.
C9_Increasing ==
    \A i \in 1..Len(Events) : \A j \in i..Len(Events) :
        Events[i].file_idx = Events[j].file_idx =>
            FLeq(Events[i].completed_fraction, Events[j].completed_fraction)

\* C9 witness: two tuples of one file with a tuple of another file put
\* between them
C9_Witness ==
    \E i \in 1..Len(Events) : \E j \in i..Len(Events) : \E k \in i..j :
        /\ Events[i].file_idx = Events[j].file_idx
        /\ Events[k].file_idx # Events[i].file_idx
        /\ FLess(Events[i].completed_fraction, Events[j].completed_fraction)

\* C10: with --max-length, the words encoded over all files never exceed
\* max_encode_duration_sec * sample_rate_hz.
C10_MaxLength ==
    argv.max_encode_duration_sec # None =>
        SumSeq([i \in 1..Cardinality(DOMAIN wk) |-> Len(Concat(wk[i - 1].encoded))])
              * TheOne(argv.max_encode_duration_sec)[2]
           <= TheOne(argv.max_encode_duration_sec)[1] * audio.sample_rate_hz

----------------------------------------------------------------------------
(* Properties of the transform of one task over a silent input.  The       *)
(* durations are compared as the exact decimals of the command line: with  *)
(* D = a/b seconds of silence, C = c/d seconds of chirp and R samples per  *)
(* second, D*R is a*R/b samples and (D+C)*R is (a*d + c*b)*R/(b*d).        *)

Abs(i) == IF i < 0 THEN -i ELSE i

\* D*R = DNum/DDen, C*R = CNum/CDen, (D+C)*R = PNum/PDen samples
DNum == argv.silence_duration_sec[1] * audio.sample_rate_hz

DDen == argv.silence_duration_sec[2]

CNum == argv.chirp_duration_sec[1] * audio.sample_rate_hz

CDen == argv.chirp_duration_sec[2]

PNum == DNum * CDen + CNum * DDen

PDen == DDen * CDen

\* the task has been fed only samples of value 0, from running silence 0
OnlySilence(f) ==
    /\ wk[f].pc \in {"decoding", "final_update", "closing", "done"}
    /\ \A k \in 1..wk[f].n : audio.frames[SegStart(f) + k] = <<Quiet>>
    /\ argv.silence_threshold_volume[1] > 0

\* a chirp lasts one sample period or longer
ChirpFitsSample == CNum >= CDen

\* the word at 0-based index k of the output is the input word
Unchanged(f, k) == wk[f].out[k + 1] = Quiet

\* the newest word of the output is no louder than chirp_volume
NewestWithinVolume(f) ==
    Abs(wk[f].out[wk[f].n]) * argv.chirp_volume[2]
        <= argv.chirp_volume[1] * 32767

\* C4 as stated: on silent input every sample with index below D*R is
\* unchanged, and the sample at index D*R is the first one replaced, by a
\* value no louder than chirp_volume.
C4_FirstChirpAtDR ==
    \A f \in DOMAIN wk : OnlySilence(f) =>
        /\ \A k \in 0..(wk[f].n - 1) : k * DDen < DNum => Unchanged(f, k)
        /\ wk[f].n * DDen > DNum =>
              /\ wk[f].onsets # <<>>
              /\ wk[f].onsets[1] * DDen = DNum
        /\ (wk[f].n > 0 /\ wk[f].chirped) => NewestWithinVolume(f)

\* C4 amended: when a chirp lasts one sample period or longer, every
\* sample with index below D*R - 1 is unchanged, the first replaced sample
\* has index D*R - 1 or D*R, and a replaced sample is no louder than
\* chirp_volume.
C4_FirstChirpNearDR ==
    \A f \in DOMAIN wk : (OnlySilence(f) /\ ChirpFitsSample) =>
        /\ \A k \in 0..(wk[f].n - 1) :
              (k + 1) * DDen < DNum => Unchanged(f, k)
        /\ wk[f].n * DDen > DNum =>
              /\ wk[f].onsets # <<>>
              /\ wk[f].onsets[1] * DDen <= DNum
              /\ DNum <= (wk[f].onsets[1] + 1) * DDen
              /\ \A k \in 0..(wk[f].onsets[1] - 1) : Unchanged(f, k)
              /\ ~Unchanged(f, wk[f].onsets[1])
        /\ (wk[f].n > 0 /\ wk[f].chirped) => NewestWithinVolume(f)

\* C4 witness: the whole silent input has been transformed and the first
\* replaced sample is the one just before index D*R
C4_Witness ==
    \E f \in Done :
        /\ OnlySilence(f) /\ ChirpFitsSample
        /\ wk[f].n * DDen > DNum
        /\ wk[f].onsets # <<>>
        /\ (wk[f].onsets[1] + 1) * DDen = DNum
        /\ ~Unchanged(f, wk[f].onsets[1])

\* the onsets of a task are spaced by (D+C)*R samples to within one sample,
\* and the next one is never overdue
OnsetsRecur(f) ==
    /\ \A j \in 1..(Len(wk[f].onsets) - 1) :
          Abs((wk[f].onsets[j + 1] - wk[f].onsets[j]) * PDen - PNum) <= PDen
    /\ IF wk[f].onsets = <<>>
       THEN (wk[f].n - 1) * DDen <= DNum
       ELSE (wk[f].n - 1 - wk[f].onsets[Len(wk[f].onsets)]) * PDen
               <= PNum + PDen

\* with D = 1.0 and C = 0.2, five seconds of silence hold two onsets
TwoOnsetsInFiveSec(f) ==
    (/\ argv.silence_duration_sec = <<1, 1>>
     /\ argv.chirp_duration_sec = <<2, 10>>
     /\ wk[f].n >= 5 * audio.sample_rate_hz) =>
        Len(wk[f].onsets) >= 2

\* C5 as stated: on silent input, onsets recur without end, consecutive
\* ones (D+C)*R samples apart to within one sample; D = 1.0, C = 0.2 gives
\* two onsets or more in five seconds.
C5_OnsetsRecurAlways ==
    \A f \in DOMAIN wk : OnlySilence(f) =>
        OnsetsRecur(f) /\ TwoOnsetsInFiveSec(f)

\* C5 amended: the same, when a chirp lasts one sample period or longer.
C5_OnsetsRecurWhenChirpFits ==
    \A f \in DOMAIN wk : (OnlySilence(f) /\ ChirpFitsSample) =>
        OnsetsRecur(f) /\ TwoOnsetsInFiveSec(f)

\* C5 witness: five seconds of silence with D = 1.0 and C = 0.2 have been
\* transformed, with more than two onsets
C5_Witness ==
    \E f \in Done :
        /\ OnlySilence(f) /\ ChirpFitsSample
        /\ argv.silence_duration_sec = <<1, 1>>
        /\ argv.chirp_duration_sec = <<2, 10>>
        /\ wk[f].n >= 5 * audio.sample_rate_hz
        /\ Len(wk[f].onsets) > 2

\* the distances, in samples, between consecutive onsets of a task
OnsetGaps(f) ==
    [j \in 1..(Len(wk[f].onsets) - 1) |->
        wk[f].onsets[j + 1] - wk[f].onsets[j]]

\* C11 as stated: on silent input, consecutive onsets are C*R samples
\* apart, to within one sample.
C11_IntervalIsChirpDuration ==
    \A f \in DOMAIN wk : OnlySilence(f) =>
        \A j \in DOMAIN OnsetGaps(f) :
            Abs(OnsetGaps(f)[j] * CDen - CNum) <= CDen

\* C11 amended: when a chirp lasts one sample period or longer,
\* consecutive onsets are (D+C)*R samples apart, to within one sample; the
\* distance is longer than C*R + 1 samples when D*R is above 2.
C11_IntervalIsSilencePlusChirp ==
    \A f \in DOMAIN wk : (OnlySilence(f) /\ ChirpFitsSample) =>
        \A j \in DOMAIN OnsetGaps(f) :
            /\ Abs(OnsetGaps(f)[j] * PDen - PNum) <= PDen
            /\ DNum > 2 * DDen => OnsetGaps(f)[j] * CDen > CNum + CDen

\* C11 witness: a silent input has been transformed with D = 0.6 and
\* C = 0.4, and chirp bursts began several times
C11_Witness ==
    \E f \in Done :
        /\ OnlySilence(f) /\ ChirpFitsSample
        /\ argv.silence_duration_sec = <<6, 10>>
        /\ argv.chirp_duration_sec = <<4, 10>>
        /\ Len(wk[f].onsets) >= 3

----------------------------------------------------------------------------
(* Properties of read_samples.                                             *)

\* the frames of the window of file f that the input holds
WindowLen(f) ==
    IF Len(audio.frames) <= SegStart(f) THEN 0
    ELSE Min(plan.file_sample_count, Len(audio.frames) - SegStart(f))

\* a mono frame at or above the silence threshold: it is never replaced
LoudMono(frame) ==
    /\ Len(frame) = 1
    /\ Abs(frame[1]) * argv.silence_threshold_volume[2]
           > argv.silence_threshold_volume[1] * 32767

\* C15: the frames a task has been fed are those at the places
\* file_idx * file_sample_count, + 1, + 2, ... of the input, in this order,
\* none at or after the end of the window; when read_samples has ended they
\* are all the frames of the window, however the frames come in blocks; a
\* loud mono frame shows as its own word in the output.
C15_ReadsWindow ==
    \A f \in DOMAIN wk :
        /\ wk[f].read = [k \in 1..Len(wk[f].read) |-> SegStart(f) + k - 1]
        /\ Len(wk[f].read) <= WindowLen(f)
        /\ \A k \in 1..Len(wk[f].out) :
              LoudMono(audio.frames[wk[f].read[k] + 1]) =>
                  wk[f].out[k] = audio.frames[wk[f].read[k] + 1][1]
        /\ wk[f].pc \in {"final_update", "closing", "done"} =>
              Len(wk[f].read) = WindowLen(f)

\* C15 witness: a task other than the first is done; its window began
\* inside a block, ran into the next block and ended before the input did
C15_Witness ==
    \E f \in Done :
        /\ f >= 1
        /\ Len(wk[f].read) >= 2
        /\ Len(audio.blocks[1]) = 3
        /\ SegStart(f) % 3 # 0
        /\ SegStart(f) + plan.file_sample_count < Len(audio.frames)

----------------------------------------------------------------------------
(* Properties of the transform of one sample.                              *)

\* the frame of the input that became word k of the output of task f
FedFrame(f, k) == audio.frames[wk[f].read[k] + 1]

\* the mean of the channels of the frame is at or above the threshold
LoudFrame(frame) ==
    Abs(SumSeq(frame)) * argv.silence_threshold_volume[2]
        > argv.silence_threshold_volume[1] * 32767 * Len(frame)

\* the word is the mean of the channels of the frame, cut to a whole word
PassedThrough(word, frame) ==
    Abs(word * Len(frame) - SumSeq(frame)) < Len(frame)

\* C12: after each sample, the sample was replaced exactly if the running
\* silence (updated and re-armed) exceeds silence_duration_sec; a replaced
\* sample is no louder than chirp_volume, any other is the input sample,
\* and a sample at or above the threshold is never replaced.
C12_ChirpIffSilent ==
    \A f \in DOMAIN wk : (wk[f].n > 0 /\ Len(wk[f].out) = wk[f].n) =>
        /\ wk[f].chirped <=>
              FLess(args.silence_duration_sec, wk[f].silence_sec)
        /\ wk[f].chirped => NewestWithinVolume(f)
        /\ ~wk[f].chirped =>
              PassedThrough(wk[f].out[wk[f].n], FedFrame(f, wk[f].n))
        /\ LoudFrame(FedFrame(f, wk[f].n)) => ~wk[f].chirped

\* C12 witness: the newest sample was replaced by a chirp, after a loud
\* sample that went through unchanged
C12_Witness ==
    \E f \in DOMAIN wk :
        /\ wk[f].n > 1 /\ Len(wk[f].out) = wk[f].n
        /\ wk[f].chirped
        /\ wk[f].out[wk[f].n] # 0
        /\ \E k \in 1..(wk[f].n - 1) :
              /\ LoudFrame(FedFrame(f, k))
              /\ wk[f].out[k] = FedFrame(f, k)[1]

----------------------------------------------------------------------------
(* Two tasks over the same samples: the input is a pattern twice over and  *)
(* each half is the window of one file.  The chirp draws differ, and a     *)
(* chirp may be as loud as the silence threshold or louder.                *)

TwinRuns ==
    { Run(1, 2, fr \o fr,
          [Argv(<<Len(fr), 2>>, <<1, 2>>, <<1, 1>>, 0, <<1, 1>>, 2, None)
              EXCEPT !.chirp_volume = cv],
          {}, {MinRandom, FZero}) :
        fr \in MonoPatterns(MaxFrames), cv \in {<<1, 100>>, <<1, 2>>} }

InitTwin == InitTasks(TwinRuns)

SpecTwin == InitTwin /\ [][NextTask]_vars

\* the first k samples fed to tasks f and g are the same
SameSamples(f, g, k) ==
    /\ k <= Len(wk[f].silences) /\ k <= Len(wk[g].silences)
    /\ \A j \in 1..k : FedFrame(f, j) = FedFrame(g, j)

\* C13: two tasks fed the same k samples from running silence 0 have the
\* same k values of the running silence and have replaced the same ones of
\* the k samples, whatever chirp values each has drawn.
C13_SilenceIgnoresDraws ==
    \A f \in DOMAIN wk : \A g \in DOMAIN wk :
        \A k \in 0..Len(wk[f].silences) :
            SameSamples(f, g, k) =>
                /\ SubSeq(wk[f].silences, 1, k) = SubSeq(wk[g].silences, 1, k)
                /\ {j \in wk[f].chirps : j < k} = {j \in wk[g].chirps : j < k}

\* C13 witness: two tasks were fed the same samples, drew different chirp
\* values as loud as the threshold, and went on to further samples
C13_Witness ==
    \E f \in DOMAIN wk : \E g \in DOMAIN wk :
        \E j \in 1..(Len(wk[f].silences) - 2) :
            /\ SameSamples(f, g, Len(wk[f].silences))
            /\ j - 1 \in wk[f].chirps
            /\ wk[f].out[j] # wk[g].out[j]
            /\ LoudFrame(<<wk[f].out[j]>>)

----------------------------------------------------------------------------
(* Properties of the words given to the encoder.                           *)

\* C14: a buffer given to the encoder's encode is never empty, and once
\* the encoder has been flushed the task gives it nothing more.
C14_NonEmptyBuffers ==
    \A f \in DOMAIN wk :
        /\ \A i \in 1..Len(wk[f].encoded) : wk[f].encoded[i] # <<>>
        /\ wk[f].flushed => wk[f].pc \in {"final_update", "closing", "done",
                                          "failed"}

\* Python's round(x): the nearest integer, the even one of two nearest
PyRound(x) ==
    LET q == FTrunc(FAbs(x))
        n == IF x.e >= 0 \/ x.m = <<>> THEN q
             ELSE IF BBit(x.m, -x.e) = 0 THEN q
             ELSE IF x.e = -1 /\ q % 2 = 0 THEN q
             ELSE q + 1
    IN  IF x.neg THEN -n ELSE n

\* C16: the newest word of the output is round(sample * 32767) of the
\* transformed sample, the chirp of some draw or the input sample, and is a
\* signed 16-bit word.
C16_RoundedWord ==
    \A f \in DOMAIN wk : (wk[f].n > 0 /\ Len(wk[f].out) = wk[f].n) =>
        /\ wk[f].out[wk[f].n] >= -32768
        /\ wk[f].out[wk[f].n] <= 32767
        /\ IF wk[f].chirped
           THEN \E u \in random_values :
                   wk[f].out[wk[f].n] = PyRound(FMul(ChirpSample(u), F32767))
           ELSE wk[f].out[wk[f].n] =
                   PyRound(FMul(SampleFloat(MonoSample(FedFrame(f, wk[f].n))),
                                F32767))

----------------------------------------------------------------------------
(* Properties of the end of a task and of the end of the run.              *)

\* the task has put its final progress tuple on the queue
FinalEventPut(f) == wk[f].pc \in {"closing", "done"}

\* C17: when a task has put its final progress tuple, its remaining samples
\* have been encoded, the encoder has been flushed and the output file is
\* closed.
C17_FinalEventAfterClose ==
    \A f \in DOMAIN wk :
        FinalEventPut(f) => wk[f].flushed /\ wk[f].file = "closed"

\* C19: when the poll loop of process() has ended, every tuple put on the
\* progress queue has been taken and rendered, the final tuple of each
\* task that is done among them.
C19_AllEventsRendered ==
    opc = "returned" =>
        /\ progress_queue = <<>>
        /\ \A f \in Done :
              \E i \in 1..Len(rendered) :
                  /\ rendered[i].file_idx = f
                  /\ rendered[i].completed_sec = wk[f].completed_sec

\* C20: main() returns 0 only when process() returned with every planned
\* file done, and returns another value when process() raised.
C20_ExitStatus ==
    result.main # -1 =>
        /\ result.main = 0 =>
              opc = "returned" /\ \A f \in Files : wk[f].pc = "done"
        /\ opc = "raised" => result.main # 0

----------------------------------------------------------------------------
(* The run under fair scheduling: the main process keeps running while it  *)
(* has a step to take, and the pool keeps running its tasks.               *)

\* the steps of the main process after the plan is made
MainStep ==
    \/ Dispatch
    \/ Scan
    \/ PollBreak
    \/ PollProgress
    \/ CommandLineReturn
    \/ MainReturn

\* the steps of the pool processes
PoolStep ==
    \E f \in Files :
        \/ StartTask(f)
        \/ ProcessSample(f)
        \/ Flush(f)
        \/ FinalUpdate(f)
        \/ CloseFile(f)

\* Plan is enabled: process() has been entered and has planned nothing yet
PlanEnabled == opc = "start"

\* PoolStep is enabled: a task is under way, or one is queued and a pool
\* process is free
PoolEnabled ==
    \E f \in Files :
        \/ wk[f].pc \in {"decoding", "final_update", "closing"}
        \/ wk[f].pc = "queued" /\ Cardinality(Running) < args.worker_count

\* the main process and the pool keep running: weak fairness of MainStep,
\* of Plan and of PoolStep, the last two with their enabling conditions
\* written out
SpecLive ==
    /\ Init /\ [][Next]_vars
    /\ WF_vars(MainStep)
    /\ <>[]PlanEnabled => []<><<Plan>>_vars
    /\ <>[]PoolEnabled => []<><<PoolStep>>_vars

\* process() has ended, by returning or by raising
Exited == opc \in {"returned", "raised"}

\* a dispatched task that has neither returned nor raised
Outstanding(f) == wk[f].pc \in {"queued", "decoding", "final_update", "closing"}

\* process() returns only with every planned task run to its end, and
\* raises only with a task failed (or with no plan made)
ExitJustified ==
    /\ opc = "returned" =>
          \A f \in Files : wk[f].pc = "done"
    /\ opc = "raised" =>
          plan = NoPlan \/ \E f \in Files : wk[f].pc = "failed"

\* C18 as stated, its last clause: process() has not ended while the
\* result of a task that has not failed is outstanding.
C18_NoExitWhileOutstanding ==
    Exited => \A f \in Files : ~Outstanding(f)

\* C18: when the pool keeps running its tasks, process() ends; it returns
\* only with every planned task run to its end, and raises only with a
\* task failed, whatever the other tasks have come to.
C18_PollLoopEnds == <>[]Exited /\ []ExitJustified

\* C18 witness: with a pool of one process, process() has returned after
\* MaxFiles tasks were run one after the other
C18_Witness ==
    /\ opc = "returned"
    /\ args.worker_count = 1
    /\ plan.file_count = MaxFiles
    /\ \A f \in Files : wk[f].pc = "done"

====
